---- MODULE Spec2Model ----
(***************************************************************************)
(* KillfeedAnalyzer (python/ora/killfeed.py): the analysis of one killfeed *)
(* row.  The row image is held by what the code reads of it:               *)
(*   edges   the Canny edge image, as the number of edge pixels (value     *)
(*           255) in each column;                                          *)
(*   match   for every icon template the TM_CCOEFF_NORMED surface of the   *)
(*           row, one score per column 0 .. W - ICON_CHARACTER_WIDTH;      *)
(*   pixels  the colour of each pixel of the first pixel row.              *)
(* Scores are fixed point, in tenths: 0.6 is 6 and -1 is -10.  Python      *)
(* lists are sequences here, so list[i] is seq[i + 1].                     *)
(***************************************************************************)
EXTENDS Integers, Sequences, FiniteSets, TLC

VARIABLES killfeed_image,   \* self.killfeed_image: [edges, match, pixels]
          color_team1,      \* frame_analyzer.game.color_team1
          color_team2,      \* frame_analyzer.game.color_team2
          killfeed,         \* self.killfeed, the cache field
          pc,               \* position inside get_killfeed
          edge_validation,  \* local of get_killfeed
          icons_weights,    \* local of get_killfeed
          scanned,          \* number of items of icons_weights the loop has taken
          best_matches,     \* local of get_killfeed
          matched_icons,    \* local of get_killfeed (what is passed on)
          returned,         \* what each finished call gave its caller
          runs              \* how often the pipeline (from _validate_edge) was started

vars == <<killfeed_image, color_team1, color_team2, killfeed, pc, edge_validation,
          icons_weights, scanned, best_matches, matched_icons, returned, runs>>

(***************************************************************************)
(* Layout of the frame structure and of the icon library.  Both are set in  *)
(* overwatch.py, which killfeed.py imports.  The row width is scaled down. *)
(* The icon width is the one killfeed.py is written around: the mask of    *)
(* _validate_edge (2 + (W - 40) + 6 entries) then has one entry per column *)
(* of the match surface (W - ICON_CHARACTER_WIDTH + 1 columns), the right  *)
(* border is looked for just behind the patch (columns i+33 .. i+36), and  *)
(* the last tested column W - 39 keeps the RIGHT team sample inside the    *)
(* row.  A wider icon would let that sample leave the row.                 *)
(***************************************************************************)
KILLFEED_MAX_WIDTH == 52
ICON_CHARACTER_WIDTH == 33
ICON_CHARACTER_HEIGHT == 24
KILLFEED_CHARACTER2_MAX_WIDTH == 46

LEFT == 0
RIGHT == 1
SCORE_THRESHOLD == 6
MINUS_ONE == -10
HALF_MASK_WIDTH == 5
VALID_PIXEL_LIMIT == 7
EDGE_RIGHT_MARGIN == 38
EDGE_TAIL == 6

name_team1 == "team1"
name_team2 == "team2"
\* the templates, in the order ICONS_CHARACTER.iteritems() yields them
ICONS_CHARACTER == <<"ana", "genji", "mercy">>

MaxCalls == 2

Columns == 0 .. (KILLFEED_MAX_WIDTH - 1)
MatchColumns == 0 .. (KILLFEED_MAX_WIDTH - ICON_CHARACTER_WIDTH)

Max2(a, b) == IF a >= b THEN a ELSE b
Min2(a, b) == IF a <= b THEN a ELSE b
SetMax(S) == CHOOSE m \in S : \A n \in S : m >= n
Abs(a) == IF a < 0 THEN -a ELSE a

KillfeedIconMatch(object_name, score, x) ==
    [object_name |-> object_name, score |-> score, x |-> x]

----------------------------------------------------------------------------
(* _validate_edge *)

\* edge_sum[j] * ICON_CHARACTER_HEIGHT: the edge pixels of columns j-1 and j
EdgeSum(image, j) == IF j = 0 THEN 0 ELSE image.edges[j - 1] + image.edges[j]

\* max(edge_sum[lo:hi]), a Python slice (clipped to the array)
EdgeSliceMax(image, lo, hi) ==
    SetMax({EdgeSum(image, j) : j \in Max2(lo, 0) .. Min2(hi, KILLFEED_MAX_WIDTH) - 1})

EdgeValidAt(image, i) ==
    /\ EdgeSliceMax(image, i - 2, i + 2) >= ICON_CHARACTER_HEIGHT - 2
    /\ EdgeSliceMax(image, i + 33, i + 37) >= ICON_CHARACTER_HEIGHT - 5

\* a slip in the loop bound: range(2, KILLFEED_MAX_WIDTH - 37)
ValidateEdge_LongRange(image) ==
    <<FALSE, FALSE>>
    \o [k \in 1 .. Max2(KILLFEED_MAX_WIDTH - EDGE_RIGHT_MARGIN - 1, 0) |->
            EdgeValidAt(image, k + 1)]
    \o [k \in 1 .. EDGE_TAIL |-> FALSE]

ValidateEdge(image) ==
    <<FALSE, FALSE>>
    \o [k \in 1 .. Max2(KILLFEED_MAX_WIDTH - EDGE_RIGHT_MARGIN - 2, 0) |->
            EdgeValidAt(image, k + 1)]
    \o [k \in 1 .. EDGE_TAIL |-> FALSE]

----------------------------------------------------------------------------
(* _get_icons_weights_full: cv2.matchTemplate over the whole row, per template *)

\* cv2.minMaxLoc: the first column (scan order) holding the maximum
MaxLoc(surface) ==
    CHOOSE c \in MatchColumns :
        \A d \in MatchColumns :
            surface[c] > surface[d] \/ (surface[c] = surface[d] /\ c <= d)

\* match_result[0, mask_index_left: mask_index_right] = [-1] * ...
MaskIndexLeft(x) == Max2(x - HALF_MASK_WIDTH, 0)
\* a slip in the window: the right end one column short
MaskIndexRight_Short(x) ==
    Min2(x + HALF_MASK_WIDTH, KILLFEED_MAX_WIDTH - ICON_CHARACTER_WIDTH)
MaskIndexRight(x) ==
    Min2(x + HALF_MASK_WIDTH + 1, KILLFEED_MAX_WIDTH - ICON_CHARACTER_WIDTH)
MaskAround(surface, x) ==
    [c \in MatchColumns |->
        IF MaskIndexLeft(x) <= c /\ c < MaskIndexRight(x) THEN MINUS_ONE
        ELSE surface[c]]

\* the two searches of one template: where they land and whether each is recorded
FullPeaks(image, validation, object_name) ==
    LET surface == image.match[object_name]
        loc1 == MaxLoc(surface)
        masked == MaskAround(surface, loc1)
        loc2 == MaxLoc(masked)
    IN  [first |-> KillfeedIconMatch(object_name, surface[loc1], loc1),
         first_recorded |-> validation[loc1 + 1],
         second |-> KillfeedIconMatch(object_name, masked[loc2], loc2),
         second_recorded |-> validation[loc2 + 1]]

FullOfTemplate(image, validation, object_name) ==
    LET p == FullPeaks(image, validation, object_name)
    IN  (IF p.first_recorded THEN <<p.first>> ELSE <<>>)
        \o (IF p.second_recorded THEN <<p.second>> ELSE <<>>)

RECURSIVE FullUpTo(_, _, _)
FullUpTo(image, validation, n) ==
    IF n = 0 THEN <<>>
    ELSE FullUpTo(image, validation, n - 1)
         \o FullOfTemplate(image, validation, ICONS_CHARACTER[n])

GetIconsWeightsFull(image, validation) ==
    FullUpTo(image, validation, Len(ICONS_CHARACTER))

----------------------------------------------------------------------------
(* _get_icons_weights_discrete: one patch comparison per edge-valid column *)

\* the inner loop over the templates: best_score = -1, best_name = "", strict >
RECURSIVE BestOfColumn(_, _, _)
BestOfColumn(image, x, n) ==
    IF n = 0 THEN KillfeedIconMatch("", MINUS_ONE, x)
    ELSE LET before == BestOfColumn(image, x, n - 1)
             score == image.match[ICONS_CHARACTER[n]][x]
         IN  IF score > before.score
             THEN KillfeedIconMatch(ICONS_CHARACTER[n], score, x)
             ELSE before

\* result_raw: for x in range(len(edge_validation)), the valid columns in order
RECURSIVE ResultRaw(_, _, _)
ResultRaw(image, validation, n) ==
    IF n = 0 THEN <<>>
    ELSE ResultRaw(image, validation, n - 1)
         \o (IF validation[n]
             THEN <<BestOfColumn(image, n - 1, Len(ICONS_CHARACTER))>>
             ELSE <<>>)

\* list.sort(key=get_score, reverse=True): stable, equal scores keep their order
InsertByScore(sorted, m) ==
    LET ahead == Cardinality({i \in 1 .. Len(sorted) : sorted[i].score >= m.score})
    IN  SubSeq(sorted, 1, ahead) \o <<m>> \o SubSeq(sorted, ahead + 1, Len(sorted))

RECURSIVE SortByScore(_, _)
SortByScore(list, n) ==
    IF n = 0 THEN <<>> ELSE InsertByScore(SortByScore(list, n - 1), list[n])

\* the columns mask[mask_left_index:mask_right_index] sets for one match
SuppressedBy(x, length) == Max2(0, x - 5) .. (Min2(length, x + 5) - 1)

\* the suppression loop over the first n matches of the sorted list
RECURSIVE Suppress(_, _, _)
Suppress(sorted, length, n) ==
    IF n = 0 THEN [mask |-> {}, result |-> <<>>]
    ELSE LET before == Suppress(sorted, length, n - 1)
             m == sorted[n]
         IN  IF m.x \in before.mask THEN before
             ELSE [mask |-> before.mask \cup SuppressedBy(m.x, length),
                   result |-> Append(before.result, m)]

GetIconsWeightsDiscrete(image, validation) ==
    LET raw == ResultRaw(image, validation, Len(validation))
        sorted == SortByScore(raw, Len(raw))
    IN  Suppress(sorted, Len(validation), Len(sorted)).result

----------------------------------------------------------------------------
(* _get_icons_weights: the strategy switch *)

ValidPixelCount(validation) ==
    Cardinality({i \in 1 .. Len(validation) : validation[i]})

GetIconsWeights(image, validation) ==
    IF ValidPixelCount(validation) <= VALID_PIXEL_LIMIT
    THEN GetIconsWeightsDiscrete(image, validation)
    ELSE GetIconsWeightsFull(image, validation)

----------------------------------------------------------------------------
(* get_killfeed: the scan for the three best matches, and the filter *)

InitialBestMatches ==
    [k \in 1 .. 3 |-> KillfeedIconMatch("", MINUS_ONE, -1)]

\* a slip in the comparisons: an equal score displaces the held match
ScanItem_TiesDisplace(best, item) ==
    IF item.score >= best[1].score THEN <<item, best[1], best[2]>>
    ELSE IF item.score >= best[2].score THEN <<best[1], item, best[2]>>
    ELSE IF item.score >= best[3].score THEN <<best[1], best[2], item>>
    ELSE best

\* one iteration of "for item in icons_weights"
ScanItem(best, item) ==
    IF item.score > best[1].score THEN <<item, best[1], best[2]>>
    ELSE IF item.score > best[2].score THEN <<best[1], item, best[2]>>
    ELSE IF item.score > best[3].score THEN <<best[1], best[2], item>>
    ELSE best

RECURSIVE ScanAll(_, _)
ScanAll(weights, n) ==
    IF n = 0 THEN InitialBestMatches
    ELSE ScanItem(ScanAll(weights, n - 1), weights[n])

\* "for item in best_matches": score >= 0.6 and edge_validation[item.x]
RECURSIVE MatchedIcons(_, _, _)
MatchedIcons(best, validation, n) ==
    IF n = 0 THEN <<>>
    ELSE MatchedIcons(best, validation, n - 1)
         \o (IF best[n].score < SCORE_THRESHOLD THEN <<>>
             ELSE IF validation[best[n].x + 1] THEN <<best[n]>>
             ELSE <<>>)

----------------------------------------------------------------------------
(* _get_icon_team and _generate_killfeed *)

\* util.color_distance
ColorDistance(a, b) == Abs(a - b)

\* the column _get_icon_team samples
TeamSampleColumn(icon, position) ==
    IF position = LEFT THEN icon.x - 5
    ELSE icon.x + ICON_CHARACTER_WIDTH + 5

\* self.killfeed_image[0][x]: a negative index counts from the right end, an
\* index beyond the row raises IndexError
PixelInRow(x) == -KILLFEED_MAX_WIDTH <= x /\ x < KILLFEED_MAX_WIDTH
PixelAt(image, x) ==
    IF x < 0 THEN image.pixels[KILLFEED_MAX_WIDTH + x] ELSE image.pixels[x]

\* a slip in the comparison: a tie goes to team two
GetIconTeam_TieToTeam2(image, icon, position, team1_color, team2_color) ==
    LET x == TeamSampleColumn(icon, position)
    IN  IF ~PixelInRow(x) THEN "IndexError"
        ELSE IF ColorDistance(PixelAt(image, x), team1_color)
                    < ColorDistance(PixelAt(image, x), team2_color)
             THEN name_team1
             ELSE name_team2

GetIconTeam(image, icon, position, team1_color, team2_color) ==
    LET x == TeamSampleColumn(icon, position)
    IN  IF ~PixelInRow(x) THEN "IndexError"
        ELSE IF ColorDistance(PixelAt(image, x), team1_color)
                    <= ColorDistance(PixelAt(image, x), team2_color)
             THEN name_team1
             ELSE name_team2

\* overwatch.Killfeed, as far as get_killfeed fills it in
Killfeed(team1, team2, character1, character2, event) ==
    [event |-> event, character1 |-> character1, character2 |-> character2,
     team1 |-> team1, team2 |-> team2]

\* Python's None, and a call that ended by raising IndexError
None == Killfeed("None", "None", "None", "None", "None")
Raised == Killfeed("None", "None", "None", "None", "IndexError")

\* a slip in the ordering: the two icons are taken in score order
GenerateKillfeed_NoReorder(image, icons, team1_color, team2_color) ==
    IF Len(icons) = 1
    THEN LET team == GetIconTeam(image, icons[1], RIGHT, team1_color, team2_color)
         IN  IF team = "IndexError" THEN Raised
             ELSE Killfeed("None", team, "None", icons[1].object_name, "SUICIDE")
    ELSE LET team1 == GetIconTeam(image, icons[1], LEFT, team1_color, team2_color)
             team2 == GetIconTeam(image, icons[2], RIGHT, team1_color, team2_color)
         IN  IF team1 = "IndexError" \/ team2 = "IndexError" THEN Raised
             ELSE Killfeed(team1, team2, icons[1].object_name,
                           icons[2].object_name,
                           IF team1 = team2 THEN "RESURRECTION" ELSE "ELIMINATION")

GenerateKillfeed(image, icons, team1_color, team2_color) ==
    IF Len(icons) = 1
    THEN LET team == GetIconTeam(image, icons[1], RIGHT, team1_color, team2_color)
         IN  IF team = "IndexError" THEN Raised
             ELSE Killfeed("None", team, "None", icons[1].object_name, "SUICIDE")
    ELSE LET ordered == IF icons[1].x > icons[2].x THEN <<icons[2], icons[1]>>
                        ELSE icons
             team1 == GetIconTeam(image, ordered[1], LEFT, team1_color, team2_color)
             team2 == GetIconTeam(image, ordered[2], RIGHT, team1_color, team2_color)
         IN  IF team1 = "IndexError" \/ team2 = "IndexError" THEN Raised
             ELSE Killfeed(team1, team2, ordered[1].object_name,
                           ordered[2].object_name,
                           IF team1 = team2 THEN "RESURRECTION" ELSE "ELIMINATION")

\* a slip in the single-icon branch: the position test is left out
Accepted_NoDeferral(matched) ==
    IF Len(matched) = 0 THEN <<>>
    ELSE IF Len(matched) = 1 THEN matched
         ELSE SubSeq(matched, 1, 2)

\* the icons get_killfeed hands to _generate_killfeed (none: it returns None)
Accepted(matched) ==
    IF Len(matched) = 0 THEN <<>>
    ELSE IF Len(matched) = 1
         THEN IF matched[1].x < KILLFEED_MAX_WIDTH - KILLFEED_CHARACTER2_MAX_WIDTH
              THEN <<>> ELSE matched
         ELSE SubSeq(matched, 1, 2)

\* lines 65-74: the value get_killfeed returns
Decide(image, matched, team1_color, team2_color) ==
    IF Len(Accepted(matched)) = 0 THEN None
    ELSE GenerateKillfeed(image, Accepted(matched), team1_color, team2_color)

----------------------------------------------------------------------------
(* The row images and team colours the analyzer is constructed with *)

LastMatchColumn == KILLFEED_MAX_WIDTH - ICON_CHARACTER_WIDTH
LastTestedColumn == KILLFEED_MAX_WIDTH - EDGE_RIGHT_MARGIN - 1

\* edge images: sets of <<column, number of edge pixels in it>>
EdgeLayouts ==
    LET H == ICON_CHARACTER_HEIGHT
    IN  { {<<1, H>>, <<4, H>>, <<9, H>>, <<12, H>>, <<38, H>>, <<43, H>>, <<48, H>>},
          {<<1, H>>, <<4, H>>, <<9, H>>, <<38, H>>, <<40, H - 5>>},
          {<<1, H>>, <<4, H - 2>>, <<9, H>>, <<38, H>>, <<41, H>>},
          {<<4, H>>, <<9, H>>, <<38, H - 5>>, <<40, H>>},
          {<<12, H>>, <<46, H>>},
          {<<1, H>>, <<38, H>>},
          {<<8, H - 12>>, <<9, H - 12>>, <<40, H>>},
          {<<4, H - 3>>, <<9, H>>, <<38, H - 6>>, <<43, H>>} }

EdgesOf(layout) ==
    [c \in Columns |->
        IF \E m \in layout : m[1] = c
        THEN (CHOOSE m \in layout : m[1] = c)[2] ELSE 0]

\* match surfaces: <<peak column, its score, second peak column, its score, the
\* score everywhere else>>; a column of -1 is no peak
SurfaceOf(shape) ==
    [c \in MatchColumns |->
        IF c = shape[1] THEN shape[2]
        ELSE IF c = shape[3] THEN shape[4]
        ELSE shape[5]]

Shapes1 ==
    { <<3, 9, 8, 6, 1>>, <<8, 9, 3, 9, 1>>, <<2, 9, LastTestedColumn, 9, 1>>,
      <<LastMatchColumn, 9, 8, 6, 1>>, <<LastTestedColumn, 9, 3, 6, 1>>,
      <<0, 9, 8, 6, 1>>, <<8, 6, -1, 0, 1>>, <<-1, 0, -1, 0, 1>>,
      <<LastMatchColumn - 2, 9, 3, 6, 1>> }
Shapes2 ==
    { <<3, 6, -1, 0, 1>>, <<8, 9, -1, 0, 1>>, <<LastTestedColumn, 9, -1, 0, 1>>,
      <<8, 5, 2, 9, 1>>, <<4, 9, -1, 0, 0>>, <<-1, 0, -1, 0, 1>>,
      <<LastTestedColumn, 9, LastMatchColumn, 6, 1>> }
Shapes3 ==
    { <<-1, 0, -1, 0, 0>>, <<8, 9, 3, 9, 2>>, <<3, 9, -1, 0, MINUS_ONE>> }

\* first pixel row: one colour left of PixelSplit, one from there on;
\* <<left colour, right colour, color_team1, color_team2>>
PixelSplit == 20
ColorSetups ==
    { <<0, 2, 0, 2>>, <<0, 0, 0, 2>>, <<2, 0, 0, 2>>, <<1, 2, 0, 2>>,
      <<0, 2, 1, 1>>, <<2, 2, 2, 0>> }

PixelsOf(setup) == [c \in Columns |-> IF c < PixelSplit THEN setup[1] ELSE setup[2]]

----------------------------------------------------------------------------
(* __init__ *)

Init ==
    /\ \E layout \in EdgeLayouts, s1 \in Shapes1, s2 \in Shapes2, s3 \in Shapes3,
          setup \in ColorSetups :
            /\ killfeed_image =
                   [edges |-> EdgesOf(layout),
                    match |-> [t \in {ICONS_CHARACTER[k] : k \in 1 .. 3} |->
                                  IF t = ICONS_CHARACTER[1] THEN SurfaceOf(s1)
                                  ELSE IF t = ICONS_CHARACTER[2] THEN SurfaceOf(s2)
                                  ELSE SurfaceOf(s3)],
                    pixels |-> PixelsOf(setup)]
            /\ color_team1 = setup[3]
            /\ color_team2 = setup[4]
    /\ killfeed = None
    /\ pc = "idle"
    /\ edge_validation = <<>>
    /\ icons_weights = <<>>
    /\ scanned = 0
    /\ best_matches = InitialBestMatches
    /\ matched_icons = <<>>
    /\ returned = <<>>
    /\ runs = 0

----------------------------------------------------------------------------
(* get_killfeed, statement by statement *)

\* lines 37-40: the cache test, then _validate_edge
GetKillfeed ==
    /\ pc = "idle"
    /\ Len(returned) < MaxCalls
    /\ IF killfeed # None
       THEN /\ returned' = Append(returned, killfeed)
            /\ UNCHANGED <<pc, edge_validation, icons_weights, scanned,
                           best_matches, matched_icons, runs>>
       ELSE /\ edge_validation' = ValidateEdge(killfeed_image)
            /\ runs' = runs + 1
            /\ pc' = "weights"
            /\ icons_weights' = <<>>
            /\ scanned' = 0
            /\ best_matches' = InitialBestMatches
            /\ matched_icons' = <<>>
            /\ UNCHANGED returned
    /\ UNCHANGED <<killfeed_image, color_team1, color_team2, killfeed>>

\* lines 41-43
Weights ==
    /\ pc = "weights"
    /\ icons_weights' = GetIconsWeights(killfeed_image, edge_validation)
    /\ best_matches' = InitialBestMatches
    /\ scanned' = 0
    /\ pc' = "scan"
    /\ UNCHANGED <<killfeed_image, color_team1, color_team2, killfeed,
                   edge_validation, matched_icons, returned, runs>>

\* lines 44-53, one item
Scan ==
    /\ pc = "scan"
    /\ scanned < Len(icons_weights)
    /\ best_matches' = ScanItem(best_matches, icons_weights[scanned + 1])
    /\ scanned' = scanned + 1
    /\ UNCHANGED <<killfeed_image, color_team1, color_team2, killfeed, pc,
                   edge_validation, icons_weights, matched_icons, returned, runs>>

\* lines 54-64
Filter ==
    /\ pc = "scan"
    /\ scanned = Len(icons_weights)
    /\ matched_icons' = MatchedIcons(best_matches, edge_validation, 3)
    /\ pc' = "decide"
    /\ UNCHANGED <<killfeed_image, color_team1, color_team2, killfeed,
                   edge_validation, icons_weights, scanned, best_matches,
                   returned, runs>>

\* lines 65-74: nothing is stored in self.killfeed
Return ==
    /\ pc = "decide"
    /\ returned' = Append(returned,
                          Decide(killfeed_image, matched_icons, color_team1, color_team2))
    /\ pc' = "idle"
    /\ UNCHANGED <<killfeed_image, color_team1, color_team2, killfeed,
                   edge_validation, icons_weights, scanned, best_matches,
                   matched_icons, runs>>

Next == GetKillfeed \/ Weights \/ Scan \/ Filter \/ Return

Spec == Init /\ [][Next]_vars

----------------------------------------------------------------------------
(* What the claims speak of *)

IsEvent(r) == r.event \in {"SUICIDE", "ELIMINATION", "RESURRECTION"}
Finished == pc = "idle" /\ Len(returned) > 0
LastResult == returned[Len(returned)]
OtherTeam(name) == IF name = name_team1 THEN name_team2 ELSE name_team1

\* the accepted icons in column order (_generate_killfeed's order)
InColumnOrder(icons) ==
    IF Len(icons) = 2 /\ icons[1].x > icons[2].x THEN <<icons[2], icons[1]>> ELSE icons

\* each accepted icon with the position _generate_killfeed classifies it at
Positioned(icons) ==
    IF Len(icons) = 0 THEN {}
    ELSE IF Len(icons) = 1 THEN {<<icons[1], RIGHT>>}
    ELSE {<<InColumnOrder(icons)[1], LEFT>>, <<InColumnOrder(icons)[2], RIGHT>>}

Equidistant(image, icon, position, a, b) ==
    /\ PixelInRow(TeamSampleColumn(icon, position))
    /\ ColorDistance(PixelAt(image, TeamSampleColumn(icon, position)), a)
         = ColorDistance(PixelAt(image, TeamSampleColumn(icon, position)), b)

\* what the selector and the classifier make of a list of candidates
OutcomeOf(weights) ==
    Decide(killfeed_image,
           MatchedIcons(ScanAll(weights, Len(weights)), edge_validation, 3),
           color_team1, color_team2)

\* the three best of the sentinels followed by the scanned candidates: a match
\* is ahead of another when it scores higher, or the same and came earlier
RankedTopThree(weights) ==
    LET all == InitialBestMatches \o weights
        Ahead(i) == Cardinality({j \in 1 .. Len(all) :
                        \/ all[j].score > all[i].score
                        \/ (all[j].score = all[i].score /\ j < i)})
    IN  [r \in 1 .. 3 |-> all[CHOOSE i \in 1 .. Len(all) : Ahead(i) = r - 1]]

----------------------------------------------------------------------------
(* The claims *)

\* C1: once a call of get_killfeed has computed an event, no later call on the
\* instance runs the pipeline again: the first event is what they return.
C1_LaterCallsReuseFirstEvent ==
    \A i \in 1 .. Len(returned) :
        (IsEvent(returned[i]) /\ \A j \in 1 .. i - 1 : ~IsEvent(returned[j]))
            => /\ runs <= i
               /\ \A j \in i .. Len(returned) : returned[j] = returned[i]

\* C2: two icons handed to _generate_killfeed are more than 5 columns apart.
C2_AcceptedColumnsApart ==
    (pc = "decide" /\ Len(Accepted(matched_icons)) = 2)
        => Abs(Accepted(matched_icons)[1].x - Accepted(matched_icons)[2].x) > 5

\* C3: on the same row, mask and templates the candidates of the sparse scorer
\* and those of the dense scorer lead to the same event kind and the same names.
C3_StrategiesAgree ==
    pc = "weights"
        => LET sparse == OutcomeOf(GetIconsWeightsDiscrete(killfeed_image, edge_validation))
               dense == OutcomeOf(GetIconsWeightsFull(killfeed_image, edge_validation))
           IN  /\ sparse.event = dense.event
               /\ sparse.character1 = dense.character1
               /\ sparse.character2 = dense.character2

\* C4: when exactly one match survives the filter, the call returns None if the
\* match lies left of KILLFEED_MAX_WIDTH - KILLFEED_CHARACTER2_MAX_WIDTH, and a
\* self-elimination event naming that match's character otherwise.
C4_SingleMatchDecision ==
    (Finished /\ Len(matched_icons) = 1)
        => IF matched_icons[1].x < KILLFEED_MAX_WIDTH - KILLFEED_CHARACTER2_MAX_WIDTH
           THEN LastResult = None
           ELSE /\ LastResult.event = "SUICIDE"
                /\ LastResult.character2 = matched_icons[1].object_name
                /\ LastResult.character1 = "None"

C4_SingleMatchGivesSuicide ==
    /\ Finished
    /\ Len(matched_icons) = 1
    /\ matched_icons[1].x >= KILLFEED_MAX_WIDTH - KILLFEED_CHARACTER2_MAX_WIDTH
    /\ LastResult.event = "SUICIDE"

\* C5 as stated: with the two team colours exchanged, every accepted icon that
\* gets a label gets the other team's, and so do the labels of the event.
C5_SwapSwapsLabels ==
    pc = "decide"
        => \A p \in Positioned(Accepted(matched_icons)) :
              LET label == GetIconTeam(killfeed_image, p[1], p[2], color_team1, color_team2)
                  swapped == GetIconTeam(killfeed_image, p[1], p[2], color_team2, color_team1)
              IN  label # "IndexError" => swapped = OtherTeam(label)

\* C5 as amended: with the two team colours exchanged, an accepted icon whose
\* sampled pixel is nearer to one team colour gets the other team's label, one
\* whose pixel is equally far from both gets team one's label either way, and
\* the event keeps its characters and carries the labels so found.
C5_SwapSwapsUnlessEquidistant ==
    pc = "decide"
        => /\ \A p \in Positioned(Accepted(matched_icons)) :
                LET label == GetIconTeam(killfeed_image, p[1], p[2], color_team1, color_team2)
                    swapped == GetIconTeam(killfeed_image, p[1], p[2], color_team2, color_team1)
                IN  IF ~PixelInRow(TeamSampleColumn(p[1], p[2]))
                    THEN label = "IndexError" /\ swapped = "IndexError"
                    ELSE IF Equidistant(killfeed_image, p[1], p[2], color_team1, color_team2)
                         THEN label = name_team1 /\ swapped = name_team1
                         ELSE label \in {name_team1, name_team2} /\ swapped = OtherTeam(label)
           /\ LET icons == InColumnOrder(Accepted(matched_icons))
                  event == Decide(killfeed_image, matched_icons, color_team1, color_team2)
                  other == Decide(killfeed_image, matched_icons, color_team2, color_team1)
              IN  /\ IsEvent(event) <=> IsEvent(other)
                  /\ event.character1 = other.character1
                  /\ event.character2 = other.character2
                  /\ (IsEvent(event) /\ Len(icons) = 2) =>
                        /\ other.team1 =
                             IF Equidistant(killfeed_image, icons[1], LEFT,
                                            color_team1, color_team2)
                             THEN name_team1 ELSE OtherTeam(event.team1)
                        /\ other.team2 =
                             IF Equidistant(killfeed_image, icons[2], RIGHT,
                                            color_team1, color_team2)
                             THEN name_team1 ELSE OtherTeam(event.team2)
                  /\ (IsEvent(event) /\ Len(icons) = 1) =>
                        other.team2 =
                             IF Equidistant(killfeed_image, icons[1], RIGHT,
                                            color_team1, color_team2)
                             THEN name_team1 ELSE OtherTeam(event.team2)

C5_TwoIconsOneEquidistant ==
    /\ pc = "decide"
    /\ Len(Accepted(matched_icons)) = 2
    /\ color_team1 # color_team2
    /\ Equidistant(killfeed_image, InColumnOrder(Accepted(matched_icons))[1], LEFT,
                   color_team1, color_team2)
    /\ ~Equidistant(killfeed_image, InColumnOrder(Accepted(matched_icons))[2], RIGHT,
                    color_team1, color_team2)
    /\ Decide(killfeed_image, matched_icons, color_team1, color_team2).event
         # Decide(killfeed_image, matched_icons, color_team2, color_team1).event

\* C6: the call returns a self-elimination event for one accepted icon, a
\* resurrection for two accepted icons of one team and an elimination for two
\* of different teams, nothing else; character1 is the icon of the smaller
\* column.
C6_EventKindFollowsIcons ==
    Finished
        => LET icons == Accepted(matched_icons)
               r == LastResult
           IN  /\ r.event \in {"None", "SUICIDE", "ELIMINATION", "RESURRECTION"}
               /\ Len(icons) = 0 => r = None
               /\ Len(icons) = 1 =>
                     /\ r.event = "SUICIDE"
                     /\ r.character2 = icons[1].object_name
               /\ Len(icons) = 2 =>
                     \E lo \in 1 .. 2 :
                        LET hi == 3 - lo
                            team1 == GetIconTeam(killfeed_image, icons[lo], LEFT,
                                                 color_team1, color_team2)
                            team2 == GetIconTeam(killfeed_image, icons[hi], RIGHT,
                                                 color_team1, color_team2)
                        IN  /\ icons[lo].x <= icons[hi].x
                            /\ r.character1 = icons[lo].object_name
                            /\ r.character2 = icons[hi].object_name
                            /\ r.team1 = team1
                            /\ r.team2 = team2
                            /\ r.event = IF team1 = team2 THEN "RESURRECTION"
                                         ELSE "ELIMINATION"

C6_ResurrectionAfterReorder ==
    /\ Finished
    /\ Len(Accepted(matched_icons)) = 2
    /\ Accepted(matched_icons)[1].x > Accepted(matched_icons)[2].x
    /\ Accepted(matched_icons)[1].object_name # Accepted(matched_icons)[2].object_name
    /\ LastResult.event = "RESURRECTION"

\* C7 as stated: the mask of _validate_edge has one entry per column of the row.
C7_MaskLengthIsRowWidth ==
    runs >= 1 => Len(edge_validation) = KILLFEED_MAX_WIDTH

\* C7 as amended: the mask of _validate_edge is 32 entries shorter than the row:
\* two leading False, one entry for each column 2 .. KILLFEED_MAX_WIDTH - 39,
\* six trailing False.
C7_MaskLengthIsRowWidthLess32 ==
    runs >= 1
        => /\ Len(edge_validation) = KILLFEED_MAX_WIDTH - 32
           /\ \A i \in 1 .. Len(edge_validation) :
                 edge_validation[i] => (2 <= i - 1 /\ i - 1 <= KILLFEED_MAX_WIDTH - 39)

C7_MaskWithValidColumns ==
    /\ runs >= 1
    /\ edge_validation[3]
    /\ edge_validation[KILLFEED_MAX_WIDTH - 38]

\* C8: after any number of scanned candidates best_matches holds the three
\* highest scoring of them (the -1 sentinels filling up), best first, and of two
\* equal scores the one seen earlier is ahead.
C8_BestMatchesAreTopThree ==
    (pc \in {"scan", "decide"} \/ Finished)
        => best_matches = RankedTopThree(SubSeq(icons_weights, 1, scanned))

C8_TieKeepsEarlierCandidate ==
    /\ pc = "scan"
    /\ scanned >= 4
    /\ \E i, j \in 1 .. scanned :
          /\ i < j
          /\ icons_weights[i].score = icons_weights[j].score
          /\ icons_weights[i] # icons_weights[j]
          /\ best_matches[3] = icons_weights[i]
          /\ \A r \in 1 .. 3 : best_matches[r] # icons_weights[j]

\* C9: a second candidate the dense scorer records for a template is more than
\* 5 columns away from that template's first best column, wherever that is.
C9_SecondCandidateOutsideWindow ==
    runs >= 1
        => \A n \in 1 .. Len(ICONS_CHARACTER) :
              LET p == FullPeaks(killfeed_image, edge_validation, ICONS_CHARACTER[n])
              IN  /\ p.second_recorded => Abs(p.second.x - p.first.x) > 5
                  /\ Len(FullOfTemplate(killfeed_image, edge_validation,
                                        ICONS_CHARACTER[n])) <= 2

C9_SecondRecordedForPeakAtEnd ==
    /\ pc = "scan"
    /\ ValidPixelCount(edge_validation) > VALID_PIXEL_LIMIT
    /\ \E n \in 1 .. Len(ICONS_CHARACTER) :
          LET p == FullPeaks(killfeed_image, edge_validation, ICONS_CHARACTER[n])
          IN  /\ p.first.x >= LastMatchColumn - HALF_MASK_WIDTH
              /\ p.second_recorded
              /\ \E k \in 1 .. Len(icons_weights) : icons_weights[k] = p.second

\* C10: the column _get_icon_team samples for an accepted icon lies in the row.
C10_TeamSampleInsideRow ==
    pc = "decide"
        => \A p \in Positioned(Accepted(matched_icons)) :
              /\ 0 <= TeamSampleColumn(p[1], p[2])
              /\ TeamSampleColumn(p[1], p[2]) < KILLFEED_MAX_WIDTH

====
